---- MODULE Spec2Model ----
(***************************************************************************)
(* Model of the repair-tracker annotation stores.                          *)
(*                                                                         *)
(*  - SharePointNotesService (src/unnamed/part_000): an in-memory cache    *)
(*    and save queue per client, flushed as a whole workbook to one        *)
(*    SharePoint artifact.                                                 *)
(*  - RowEditor (src/src/App.jsx): the per-row editor that auto-saves two  *)
(*    note fields to a realtime document and listens to its snapshots.     *)
(*                                                                         *)
(* Text is a sequence of one-character strings, so that trim() and         *)
(* toUpperCase() are computed and not assumed.  The "Last Updated" stamp   *)
(* of a note is not carried: no operation reads it back.                   *)
(***************************************************************************)
EXTENDS Integers, Sequences, FiniteSets, TLC

\* ------------------------------------------------------------------ text

\* JavaScript undefined, as an argument value (not a character sequence).
Undefined == <<"undefined">>

EmptyText == <<>>

\* v || ""  and  String(v || "")
OrEmpty(v) == IF v = Undefined \/ v = EmptyText THEN EmptyText ELSE v

IsSpace(ch) == ch = " "

RECURSIVE TrimLeft(_)
TrimLeft(s) == IF s # <<>> /\ IsSpace(Head(s)) THEN TrimLeft(Tail(s)) ELSE s

RECURSIVE TrimRight(_)
TrimRight(s) ==
    IF s # <<>> /\ IsSpace(s[Len(s)]) THEN TrimRight(SubSeq(s, 1, Len(s) - 1)) ELSE s

\* String.prototype.trim
Trim(s) == TrimRight(TrimLeft(s))

UpperChar(ch) == CASE ch = "a" -> "A" [] ch = "b" -> "B" [] OTHER -> ch

\* String.prototype.toUpperCase
ToUpperCase(s) == [i \in DOMAIN s |-> UpperChar(s[i])]

\* ------------------------------------------------------ service: helpers

\* _normBarcode(bc): bc ? String(bc).trim().toUpperCase() : ""
NormBarcode(bc) ==
    IF bc = Undefined \/ bc = EmptyText THEN EmptyText ELSE ToUpperCase(Trim(bc))

\* _shapeForCache({barcode, meetingNote, requiresFollowUp})
ShapeForCache(bc, mn, fu) ==
    [barcode          |-> NormBarcode(bc),
     meetingNote      |-> Trim(OrEmpty(mn)),
     requiresFollowUp |-> Trim(OrEmpty(fu))]

\* _shapeFromRow(row)
ShapeFromRow(row) ==
    [barcode          |-> NormBarcode(row.Barcode),
     meetingNote      |-> Trim(row.MeetingNote),
     requiresFollowUp |-> Trim(row.RequiresFollowUp)]

\* The row object saveToSharePoint builds for one cached note.
RowOfNote(n) ==
    [Barcode |-> n.barcode, MeetingNote |-> n.meetingNote,
     RequiresFollowUp |-> n.requiresFollowUp]

\* A Map is a function whose domain is the set of its keys.
EmptyMap == << >>

MapSet(m, k, v) == [x \in (DOMAIN m) \cup {k} |-> IF x = k THEN v ELSE m[x]]

MapDelete(m, k) == [x \in (DOMAIN m) \ {k} |-> m[x]]

\* A save-queue entry: null (deletion) or a note.
Null == <<>>

Some(n) == <<n>>

\* The empty shell getNote returns for a key that is not cached.
EmptyShell(key) ==
    [barcode |-> key, meetingNote |-> EmptyText, requiresFollowUp |-> EmptyText]

\* --------------------------------------------------------- model bounds

\* Service instances (one per browser session).
Clients == {"c1", "c2"}

\* How many updateNote/deleteNote calls one session makes.
MaxEdits == 2

\* How many saveToSharePoint() calls of one instance the model lets be
\* suspended at an await at the same time.
MaxCalls == 2

Slots == 1..MaxCalls

\* Arguments the callers pass: barcodes as typed or read from a report ...
RawBarcodes == {EmptyText, <<" ", "a">>, <<"A">>, <<"b">>}

\* ... and the updateNote(barcode, meetingNote, requiresFollowUp) calls made.
UpdateCalls ==
    {[bc |-> <<" ", "a">>, mn |-> <<"n", " ">>, fu |-> Undefined],
     [bc |-> <<"A">>,      mn |-> <<"m">>,      fu |-> <<"f">>],
     [bc |-> <<"b">>,      mn |-> <<"n">>,      fu |-> Undefined],
     [bc |-> EmptyText,    mn |-> <<"n">>,      fu |-> <<"f">>]}

Keys == {NormBarcode(b) : b \in RawBarcodes} \ {EmptyText}

\* ---------------------------------------------------------------- state

VARIABLES
    notesCache,    \* [client -> Map key -> note]        this.notesCache
    saveQueue,     \* [client -> Map key -> note | null] this.saveQueue
    isSaving,      \* [client -> BOOLEAN]                this.isSaving
    calls,         \* [client -> [slot -> suspended saveToSharePoint() call]]
    load,          \* [client -> suspended loadAllNotes() call]
    artifact,      \* the notes workbook on SharePoint
    ret,           \* how the last API call of the service returned or settled
    lastEdit,      \* history: [client -> [key -> newest updateNote/deleteNote]]
    sync,          \* history: [client -> [key -> "clean" | "dirty" | "flying"]]
    priorFollowUp, \* history: follow-up note a key had before an update that omitted it
    edits,         \* history: [client -> number of updateNote/deleteNote calls so far]
    base           \* history: [client -> what its last completed loadAllNotes() returned]

VARIABLES
    doc,           \* the repairNotes/<barcode> document: absent or its two note fields
    open,          \* [editor -> BOOLEAN] the RowEditor is mounted
    meetingNote,   \* [editor -> text] React state
    followUp,      \* [editor -> text] React state
    focus,         \* [editor -> name of document.activeElement, or "none"]
    timer,         \* [editor -> pending auto-save timeout with the values it captured]
    writing,       \* [editor -> setDoc() calls awaiting the store]
    inbox,         \* [editor -> snapshot the listener has not been called with yet]
    lastTyped,     \* history: [editor -> [field -> newest text the user typed]]
    unsaved,       \* history: [editor -> [field -> typed text not yet written to the store]]
    typed,         \* history: [editor -> number of edits the user made]
    opens,         \* history: [editor -> number of times the editor was opened]
    removal,       \* [editor -> "pending" while handleDeleteFromDatabase awaits deleteDoc;
                   \*  history: "done" once it succeeded and the user has not typed since]
    rejected       \* history: [editor -> the newest settled setDoc() of the editor rejected]

edVars == <<doc, open, meetingNote, followUp, focus, timer, writing, inbox,
            lastTyped, unsaved, typed, opens, removal, rejected>>

svcVars == <<notesCache, saveQueue, isSaving, calls, load, artifact, ret,
             lastEdit, sync, priorFollowUp, edits, base>>

\* ------------------------------------------------- the external artifact

\* The workbook on SharePoint: absent, or its data rows by barcode.
NotFound == <<>>

File(rows) == <<rows>>

\* Errors the Graph client rejects with.
ErrNotFoundStatus == [status |-> 404, code |-> "", message |-> "Request failed"]

ErrItemNotFound == [status |-> 0, code |-> "itemNotFound", message |-> "Request failed"]

ErrNotFoundMessage == [status |-> 0, code |-> "", message |-> "Resource Not Found"]

ErrTransport == [status |-> 500, code |-> "generalException", message |-> "Network error"]

NoError == [status |-> 0, code |-> "", message |-> ""]

\* Messages that /404|not\s*found/i matches, among those the model uses.
MatchesNotFound(message) == message \in {"Resource Not Found", "404"}

\* A catch block that looks at the message only.
IsNotFoundMessageOnly(e) == MatchesNotFound(e.message)

\* loadAllNotes catch: status === 404 || code === "itemNotFound" || regex
IsNotFoundError(e) ==
    e.status = 404 \/ e.code = "itemNotFound" \/ MatchesNotFound(e.message)

\* What readExcelFromSharePoint can answer, given the artifact.
ReadResponses(art) ==
    IF art = NotFound
    THEN {[kind |-> "error", rows |-> EmptyMap, err |-> e] :
             e \in {ErrNotFoundStatus, ErrItemNotFound, ErrNotFoundMessage, ErrTransport}}
    ELSE {[kind |-> "rows", rows |-> art[1], err |-> NoError],
          [kind |-> "error", rows |-> EmptyMap, err |-> ErrTransport]}

NoResponse == [kind |-> "none", rows |-> EmptyMap, err |-> NoError]

\* loadAllNotes: the Map built from the rows read (rows.forEach ... map.set)
MapOfRows(rows) ==
    LET shaped == {ShapeFromRow(rows[k]) : k \in DOMAIN rows}
        kept   == {n \in shaped : n.barcode # EmptyText}
    IN  [key \in {n.barcode : n \in kept} |->
            CHOOSE n \in kept : n.barcode = key]

\* What a loadAllNotes() of a new client returns for the current artifact.
FreshLoad == IF artifact = NotFound THEN EmptyMap ELSE MapOfRows(artifact[1])

\* ------------------------------------------------------ service: actions

\* imp: the call was made by importNotes, which settles as the call does.
IdleCall == [pc |-> "idle", batch |-> EmptyMap, content |-> EmptyMap, imp |-> FALSE]

IdleLoad == [pc |-> "idle", resp |-> NoResponse]

Ret(c, op, io, out) == [client |-> c, op |-> op, io |-> io, out |-> out]

\* spBasePath is configured ("General/Repairs/RepairTracker"), so
\* saveToSharePoint awaits ensureFolderPath before the upload.
FolderPathSet == TRUE

\* Artifacts a session can find when it starts.
InitArtifacts ==
    {NotFound,
     File([k \in {<<" ", "a">>, EmptyText} |->
              [Barcode |-> k, MeetingNote |-> <<"n", " ">>, RequiresFollowUp |-> <<"f">>]])}

SvcInit ==
    /\ notesCache = [c \in Clients |-> EmptyMap]
    /\ saveQueue = [c \in Clients |-> EmptyMap]
    /\ isSaving = [c \in Clients |-> FALSE]
    /\ calls = [c \in Clients |-> [s \in Slots |-> IdleCall]]
    /\ load = [c \in Clients |-> IdleLoad]
    /\ artifact \in InitArtifacts
    /\ ret = Ret("c1", "new", "none", "none")
    /\ lastEdit = [c \in Clients |-> [k \in Keys |-> <<>>]]
    /\ sync = [c \in Clients |-> [k \in Keys |-> "clean"]]
    /\ priorFollowUp = [c \in Clients |-> [k \in Keys |-> <<>>]]
    /\ edits = [c \in Clients |-> 0]
    /\ base = [c \in Clients |-> <<>>]

\* getNote(barcode)
GetNote(c, bc) ==
    LET key == NormBarcode(bc)
    IN  IF key \in DOMAIN notesCache[c] THEN notesCache[c][key] ELSE EmptyShell(key)

\* updateNote(barcode, meetingNote, requiresFollowUp)
UpdateNote(c, bc, mn, fu) ==
    LET key  == NormBarcode(bc)
        note == ShapeForCache(key, mn, fu)
    IN  IF key = EmptyText
        THEN /\ ret' = Ret(c, "updateNote", "none", "null")
             /\ UNCHANGED <<notesCache, saveQueue, isSaving, calls, load, artifact,
                            lastEdit, sync, priorFollowUp, edits, base>>
        ELSE /\ notesCache' = [notesCache EXCEPT ![c] = MapSet(@, key, note)]
             /\ saveQueue' = [saveQueue EXCEPT ![c] = MapSet(@, key, Some(note))]
             /\ ret' = Ret(c, "updateNote", "none", "note")
             /\ lastEdit' = [lastEdit EXCEPT ![c][key] = <<Some(note)>>]
             /\ sync' = [sync EXCEPT ![c][key] = "dirty"]
             /\ priorFollowUp' = [priorFollowUp EXCEPT ![c][key] =
                    IF fu = Undefined /\ mn # Undefined /\ key \in DOMAIN notesCache[c]
                    THEN <<notesCache[c][key].requiresFollowUp>> ELSE <<>>]
             /\ edits' = [edits EXCEPT ![c] = @ + 1]
             /\ UNCHANGED <<isSaving, calls, load, artifact, base>>

\* deleteNote(barcode)
DeleteNote(c, bc) ==
    LET key == NormBarcode(bc)
    IN  IF key = EmptyText
        THEN /\ ret' = Ret(c, "deleteNote", "none", "ignored")
             /\ UNCHANGED <<notesCache, saveQueue, isSaving, calls, load, artifact,
                            lastEdit, sync, priorFollowUp, edits, base>>
        ELSE /\ notesCache' = [notesCache EXCEPT ![c] = MapDelete(@, key)]
             /\ saveQueue' = [saveQueue EXCEPT ![c] = MapSet(@, key, Null)]
             /\ ret' = Ret(c, "deleteNote", "none", "deleted")
             /\ lastEdit' = [lastEdit EXCEPT ![c][key] = <<Null>>]
             /\ sync' = [sync EXCEPT ![c][key] = "dirty"]
             /\ priorFollowUp' = [priorFollowUp EXCEPT ![c][key] = <<>>]
             /\ edits' = [edits EXCEPT ![c] = @ + 1]
             /\ UNCHANGED <<isSaving, calls, load, artifact, base>>

\* batch.forEach((note, bc) => note === null ? cache.delete(bc) : cache.set(bc, note))
ApplyBatch(cache, batch) ==
    [k \in ((DOMAIN cache) \cup {b \in DOMAIN batch : batch[b] # Null})
              \ {b \in DOMAIN batch : batch[b] = Null} |->
        IF k \in DOMAIN batch THEN batch[k][1] ELSE cache[k]]

\* Array.from(notesCache.values()).map(n => row): the uploaded data rows
RowsOfCache(cache) == [k \in DOMAIN cache |-> RowOfNote(cache[k])]

\* A catch block that does not put the failed batch back.
RequeueDropped(queue, batch) == queue

\* catch: batch.forEach((note, bc) => this.saveQueue.set(bc, note))
Requeue(queue, batch) ==
    [k \in (DOMAIN queue) \cup (DOMAIN batch) |->
        IF k \in DOMAIN batch THEN batch[k] ELSE queue[k]]

\* A guard that does not look at isSaving.
MaySaveNoFlag(c) == saveQueue[c] # EmptyMap

\* The guard of saveToSharePoint that lets a call go on to take its batch.
MaySave(c) == saveQueue[c] # EmptyMap /\ ~isSaving[c]

FreeSlots(c) == {s \in Slots : calls[c][s].pc = "idle"}

\* saveToSharePoint(): a call that returns at once
SaveReturn(c) ==
    /\ ~MaySave(c)
    /\ ret' = Ret(c, "saveToSharePoint", "none",
                  IF saveQueue[c] = EmptyMap THEN "nochanges" ELSE "skipped")
    /\ UNCHANGED <<notesCache, saveQueue, isSaving, calls, load, artifact,
                   lastEdit, sync, priorFollowUp, edits, base>>

\* saveToSharePoint(): from the guards to the first await
SaveStart(c) ==
    /\ MaySave(c)
    /\ FreeSlots(c) # {}
    /\ LET s     == CHOOSE x \in FreeSlots(c) : \A y \in FreeSlots(c) : x <= y
           batch == saveQueue[c]
           cache == ApplyBatch(notesCache[c], batch)
       IN  /\ isSaving' = [isSaving EXCEPT ![c] = TRUE]
           /\ saveQueue' = [saveQueue EXCEPT ![c] = EmptyMap]
           /\ notesCache' = [notesCache EXCEPT ![c] = cache]
           /\ calls' = [calls EXCEPT ![c][s] =
                  [pc |-> IF FolderPathSet THEN "ensure" ELSE "upload",
                   batch |-> batch, content |-> RowsOfCache(cache), imp |-> FALSE]]
           /\ sync' = [sync EXCEPT ![c] =
                  [k \in Keys |-> IF k \in DOMAIN batch THEN "flying" ELSE @[k]]]
    /\ ret' = Ret(c, "saveToSharePoint", "none", "pending")
    /\ UNCHANGED <<load, artifact, lastEdit, priorFollowUp, edits, base>>

\* catch + finally of saveToSharePoint, for the call in slot s
SaveRejected(c, s) ==
    /\ saveQueue' = [saveQueue EXCEPT ![c] = Requeue(@, calls[c][s].batch)]
    /\ isSaving' = [isSaving EXCEPT ![c] = FALSE]
    /\ calls' = [calls EXCEPT ![c][s] = IdleCall]
    /\ ret' = Ret(c, IF calls[c][s].imp THEN "importNotes" ELSE "saveToSharePoint",
                  "error", "rejected")
    /\ sync' = [sync EXCEPT ![c] =
           [k \in Keys |-> IF k \in DOMAIN calls[c][s].batch /\ @[k] = "flying"
                           THEN "dirty" ELSE @[k]]]
    /\ UNCHANGED <<notesCache, load, artifact, lastEdit, priorFollowUp, edits, base>>

\* await this.ods.ensureFolderPath(...) settles
SaveEnsureSettle(c, s, ok) ==
    /\ calls[c][s].pc = "ensure"
    /\ IF ok
       THEN /\ calls' = [calls EXCEPT ![c][s].pc = "upload"]
            /\ ret' = Ret(c, "saveToSharePoint", "ok", "pending")
            /\ UNCHANGED <<notesCache, saveQueue, isSaving, load, artifact,
                           lastEdit, sync, priorFollowUp, edits, base>>
       ELSE SaveRejected(c, s)

\* await this.ods.uploadExcelToSharePoint(...) settles
SaveUploadSettle(c, s, ok) ==
    /\ calls[c][s].pc = "upload"
    /\ IF ok
       THEN /\ artifact' = File(calls[c][s].content)
            /\ isSaving' = [isSaving EXCEPT ![c] = FALSE]
            /\ calls' = [calls EXCEPT ![c][s] = IdleCall]
            /\ ret' = Ret(c, IF calls[c][s].imp THEN "importNotes" ELSE "saveToSharePoint",
                          "ok", "resolved")
            /\ sync' = [sync EXCEPT ![c] =
                   [k \in Keys |-> IF k \in DOMAIN calls[c][s].batch /\ @[k] = "flying"
                                   THEN "clean" ELSE @[k]]]
            /\ UNCHANGED <<notesCache, saveQueue, load, lastEdit, priorFollowUp,
                           edits, base>>
       ELSE SaveRejected(c, s)

\* loadAllNotes(): up to the await; the read is answered from the artifact
LoadStart(c) ==
    /\ load[c].pc = "idle"
    /\ \E r \in ReadResponses(artifact) : load' = [load EXCEPT ![c] = [pc |-> "reading", resp |-> r]]
    /\ ret' = Ret(c, "loadAllNotes", "none", "pending")
    /\ UNCHANGED <<notesCache, saveQueue, isSaving, calls, artifact,
                   lastEdit, sync, priorFollowUp, edits, base>>

\* loadAllNotes(): after the await
LoadSettle(c) ==
    /\ load[c].pc = "reading"
    /\ load' = [load EXCEPT ![c] = IdleLoad]
    /\ LET r == load[c].resp
       IN  IF r.kind = "rows"
           THEN /\ notesCache' = [notesCache EXCEPT ![c] = MapOfRows(r.rows)]
                /\ base' = [base EXCEPT ![c] = <<MapOfRows(r.rows)>>]
                /\ ret' = Ret(c, "loadAllNotes", "ok", "resolved")
           ELSE IF IsNotFoundError(r.err)
           THEN /\ notesCache' = [notesCache EXCEPT ![c] = EmptyMap]
                /\ base' = [base EXCEPT ![c] = <<EmptyMap>>]
                /\ ret' = Ret(c, "loadAllNotes", "error", "resolved")
           ELSE /\ ret' = Ret(c, "loadAllNotes", "error", "rejected")
                /\ UNCHANGED <<notesCache, base>>
    /\ UNCHANGED <<saveQueue, isSaving, calls, artifact,
                   lastEdit, sync, priorFollowUp, edits>>

\* The list an import passes: a note and an entry without a barcode.
ImportList ==
    <<[barcode |-> <<" ", "a">>, meetingNote |-> <<"m">>, requiresFollowUp |-> Undefined],
      [barcode |-> EmptyText,    meetingNote |-> <<"n">>, requiresFollowUp |-> <<"f">>]>>

\* The notes of a list by normalized barcode as importNotes shapes them,
\* entries without a barcode left out, the last note of a barcode winning.
RECURSIVE ShapedNotes(_)
ShapedNotes(list) ==
    IF list = <<>> THEN EmptyMap
    ELSE LET n      == list[Len(list)]
             shaped == ShapeForCache(n.barcode, n.meetingNote, n.requiresFollowUp)
             rest   == ShapedNotes(SubSeq(list, 1, Len(list) - 1))
         IN  IF shaped.barcode = EmptyText \/ shaped.barcode \in DOMAIN rest THEN rest
             ELSE MapSet(rest, shaped.barcode, shaped)

\* importNotes(list): the notes are put into notesCache and saveQueue, then
\* saveToSharePoint() is called and runs to its first return or await.
ImportNotes(c, list) ==
    LET notes == ShapedNotes(list)
        cache == [k \in (DOMAIN notesCache[c]) \cup (DOMAIN notes) |->
                     IF k \in DOMAIN notes THEN notes[k] ELSE notesCache[c][k]]
        queue == [k \in (DOMAIN saveQueue[c]) \cup (DOMAIN notes) |->
                     IF k \in DOMAIN notes THEN Some(notes[k]) ELSE saveQueue[c][k]]
        s     == CHOOSE x \in FreeSlots(c) : \A y \in FreeSlots(c) : x <= y
    IN  /\ lastEdit' = [lastEdit EXCEPT ![c] =
               [k \in Keys |-> IF k \in DOMAIN notes THEN <<Some(notes[k])>> ELSE @[k]]]
        /\ priorFollowUp' = [priorFollowUp EXCEPT ![c] =
               [k \in Keys |-> IF k \in DOMAIN notes THEN <<>> ELSE @[k]]]
        /\ IF queue = EmptyMap \/ isSaving[c]
           THEN /\ notesCache' = [notesCache EXCEPT ![c] = cache]
                /\ saveQueue' = [saveQueue EXCEPT ![c] = queue]
                /\ sync' = [sync EXCEPT ![c] =
                       [k \in Keys |-> IF k \in DOMAIN notes THEN "dirty" ELSE @[k]]]
                /\ ret' = Ret(c, "importNotes", "none", "resolved")
                /\ UNCHANGED <<isSaving, calls>>
           ELSE /\ FreeSlots(c) # {}
                /\ isSaving' = [isSaving EXCEPT ![c] = TRUE]
                /\ saveQueue' = [saveQueue EXCEPT ![c] = EmptyMap]
                /\ notesCache' = [notesCache EXCEPT ![c] = ApplyBatch(cache, queue)]
                /\ calls' = [calls EXCEPT ![c][s] =
                       [pc |-> IF FolderPathSet THEN "ensure" ELSE "upload",
                        batch |-> queue,
                        content |-> RowsOfCache(ApplyBatch(cache, queue)),
                        imp |-> TRUE]]
                /\ sync' = [sync EXCEPT ![c] =
                       [k \in Keys |-> IF k \in DOMAIN queue THEN "flying" ELSE @[k]]]
                /\ ret' = Ret(c, "importNotes", "none", "pending")
        /\ UNCHANGED <<load, artifact, edits, base>>

EditStep(c) ==
    /\ edits[c] < MaxEdits
    /\ \/ \E u \in UpdateCalls : UpdateNote(c, u.bc, u.mn, u.fu)
       \/ \E bc \in RawBarcodes : DeleteNote(c, bc)

SaveStep(c) ==
    \/ SaveReturn(c)
    \/ SaveStart(c)
    \/ \E s \in Slots, ok \in BOOLEAN : SaveEnsureSettle(c, s, ok)
    \/ \E s \in Slots, ok \in BOOLEAN : SaveUploadSettle(c, s, ok)

LoadStep(c) ==
    \/ LoadStart(c)
    \/ LoadSettle(c)

\* ---------------------------------------------------------- row editor

\* Browser sessions that have the editor of one row open.
Editors == {"e1", "e2"}

Fields == {"meetingNote", "followUp"}

\* How many edits the user of one editor makes.
MaxTyped == 1

\* How many times one session opens the editor of the row.
MaxOpens == 1

\* How many setDoc() calls of one editor can await the store at once.
MaxWriting == 1

\* Texts typed into a note field (clearing it included).
EditorTexts == {EmptyText, <<"p">>}

NoDoc == <<>>

Doc(mn, fu) == <<[meetingNote |-> mn, requiresFollowUp |-> fu]>>

\* A snapshot: the document state it carries and the session whose write
\* produced it ("init" for the first snapshot of a listener).
Snapshot(d, from) == <<[data |-> d, from |-> from]>>

EdInit ==
    /\ doc = NoDoc
    /\ open = [e \in Editors |-> FALSE]
    /\ meetingNote = [e \in Editors |-> EmptyText]
    /\ followUp = [e \in Editors |-> EmptyText]
    /\ focus = [e \in Editors |-> "none"]
    /\ timer = [e \in Editors |-> <<>>]
    /\ writing = [e \in Editors |-> <<>>]
    /\ inbox = [e \in Editors |-> <<>>]
    /\ lastTyped = [e \in Editors |-> [f \in Fields |-> <<>>]]
    /\ unsaved = [e \in Editors |-> [f \in Fields |-> FALSE]]
    /\ typed = [e \in Editors |-> 0]
    /\ opens = [e \in Editors |-> 0]
    /\ removal = [e \in Editors |-> "none"]
    /\ rejected = [e \in Editors |-> FALSE]

\* ------------------------------------------------------------ the app

VARIABLES
    ticketData,            \* ticket rows, in file order
    reportData,            \* report rows, in file order
    categoryMapping,       \* category mapping entries, in list order
    baseCombinedData,      \* the memoized merged records
    unmatchedCategories,   \* the unmatched-category list shown by the manager
    notesMap,              \* Map barcode -> notes delivered by the listeners
    notesListeners,        \* notesListenersRef: the barcodes subscribed to
    snaps,                 \* the listeners that were not called with their newest snapshot yet
    combinedDataWithNotes, \* the displayed rows
    repairNotes,           \* the repairNotes collection: [document id -> NoDoc or Doc]
    isImporting,           \* a notes import is running (state and isImportingRef)
    importBatch,           \* <<>> or <<the writes the running import has not committed yet>>
    appNotesCache,         \* the app's notesCache state: Map barcode -> notes
    writes,                \* how many writes to the store were started
    currentPage,           \* the page of the table that is displayed
    itemsPerPage           \* the rows per page

appVars == <<ticketData, reportData, categoryMapping, baseCombinedData,
             unmatchedCategories, notesMap, notesListeners, snaps,
             combinedDataWithNotes, repairNotes,
             isImporting, importBatch, appNotesCache, writes,
             currentPage, itemsPerPage>>

\* The page and the page size a session starts with.
CurrentPage == 1
ItemsPerPage == 100

\* The state of the paginated variant only.
pagerVars == <<currentPage, itemsPerPage>>
pageVars == <<isImporting, importBatch, appNotesCache, writes, pagerVars>>

\* Document ids of the realtime store the model uses: the barcodes as they
\* stand in the report and ticket rows.
DocIds == {<<" ", "a">>, <<"A">>, <<"b">>}

AppInit ==
    /\ ticketData = <<>>
    /\ reportData = <<>>
    /\ categoryMapping = <<>>
    /\ baseCombinedData = <<>>
    /\ unmatchedCategories = <<>>
    /\ notesMap = EmptyMap
    /\ notesListeners = {}
    /\ snaps = {}
    /\ combinedDataWithNotes = <<>>
    /\ repairNotes = [id \in DocIds |-> NoDoc]
    /\ isImporting = FALSE
    /\ importBatch = <<>>
    /\ appNotesCache = EmptyMap
    /\ writes = 0
    /\ currentPage = CurrentPage
    /\ itemsPerPage = ItemsPerPage

Init == SvcInit /\ EdInit /\ AppInit

vars == <<svcVars, edVars, appVars>>

\* The auto-save effect: clearTimeout, then setTimeout of a closure over the
\* rendered state.
Schedule(mn, fu) == <<[meetingNote |-> mn, requiresFollowUp |-> fu]>>

\* row["Meeting Note"] || "", row["Requires Follow Up"] || "": the table row
\* shows the stored notes, or blanks when its listener has not caught up.
RowNotes ==
    {[meetingNote |-> EmptyText, requiresFollowUp |-> EmptyText]}
        \cup (IF doc = NoDoc THEN {} ELSE {doc[1]})

\* Mounting RowEditor: useState from the row, both effects run.
OpenEditor(e) ==
    /\ ~open[e]
    /\ opens[e] < MaxOpens
    /\ opens' = [opens EXCEPT ![e] = @ + 1]
    /\ open' = [open EXCEPT ![e] = TRUE]
    /\ \E r \in RowNotes :
          /\ meetingNote' = [meetingNote EXCEPT ![e] = r.meetingNote]
          /\ followUp' = [followUp EXCEPT ![e] = r.requiresFollowUp]
          /\ timer' = [timer EXCEPT ![e] = Schedule(r.meetingNote, r.requiresFollowUp)]
    /\ inbox' = [inbox EXCEPT ![e] = Snapshot(doc, "init")]
    /\ focus' = [focus EXCEPT ![e] = "none"]
    /\ lastTyped' = [lastTyped EXCEPT ![e] = [f \in Fields |-> <<>>]]
    /\ unsaved' = [unsaved EXCEPT ![e] = [f \in Fields |-> FALSE]]
    /\ rejected' = [rejected EXCEPT ![e] = FALSE]
    /\ UNCHANGED <<doc, writing, typed, removal>>

\* Unmounting: both effect cleanups run (clearTimeout, unsub).
CloseEditor(e) ==
    /\ open[e]
    /\ open' = [open EXCEPT ![e] = FALSE]
    /\ timer' = [timer EXCEPT ![e] = <<>>]
    /\ inbox' = [inbox EXCEPT ![e] = <<>>]
    /\ focus' = [focus EXCEPT ![e] = "none"]
    /\ meetingNote' = [meetingNote EXCEPT ![e] = EmptyText]
    /\ followUp' = [followUp EXCEPT ![e] = EmptyText]
    /\ UNCHANGED <<doc, writing, lastTyped, unsaved, typed, opens, removal, rejected>>

\* The user moves the focus (into a textarea, or out of both).
MoveFocus(e, to) ==
    /\ open[e]
    /\ focus[e] # to
    /\ focus' = [focus EXCEPT ![e] = to]
    /\ UNCHANGED <<doc, open, meetingNote, followUp, timer, writing, inbox,
                   lastTyped, unsaved, typed, opens, removal, rejected>>

\* onChange of a textarea: the field has the focus, its state is set and
\* the auto-save effect re-runs.
TypeText(e, f, text) ==
    /\ open[e]
    /\ typed[e] < MaxTyped
    /\ text # (IF f = "meetingNote" THEN meetingNote[e] ELSE followUp[e])
    /\ focus' = [focus EXCEPT ![e] = f]
    /\ LET mn == IF f = "meetingNote" THEN text ELSE meetingNote[e]
           fu == IF f = "followUp" THEN text ELSE followUp[e]
       IN  /\ meetingNote' = [meetingNote EXCEPT ![e] = mn]
           /\ followUp' = [followUp EXCEPT ![e] = fu]
           /\ timer' = [timer EXCEPT ![e] = Schedule(mn, fu)]
    /\ lastTyped' = [lastTyped EXCEPT ![e][f] = <<text>>]
    /\ unsaved' = [unsaved EXCEPT ![e][f] = TRUE]
    /\ typed' = [typed EXCEPT ![e] = @ + 1]
    /\ removal' = [removal EXCEPT ![e] = IF @ = "done" THEN "none" ELSE @]
    /\ UNCHANGED <<doc, open, writing, inbox, opens, rejected>>

\* The timeout fires: setDoc(docRef, {barcode, meetingNote, requiresFollowUp,
\* lastUpdated}, {merge: true}) is called and awaited.
TimerFires(e) ==
    /\ timer[e] # <<>>
    /\ Len(writing[e]) < MaxWriting
    /\ writing' = [writing EXCEPT ![e] = Append(@, timer[e][1])]
    /\ timer' = [timer EXCEPT ![e] = <<>>]
    /\ UNCHANGED <<doc, open, meetingNote, followUp, focus, inbox,
                   lastTyped, unsaved, typed, opens, removal, rejected>>

\* setDoc with merge: the fields given replace those of the document.
MergeDoc(d, w) == Doc(w.meetingNote, w.requiresFollowUp)

\* The store applies the oldest awaited write of e and notifies the listeners.
WriteResolves(e) ==
    /\ writing[e] # <<>>
    /\ LET w == Head(writing[e])
       IN  /\ doc' = MergeDoc(doc, w)
           /\ inbox' = [x \in Editors |->
                  IF open[x] THEN Snapshot(MergeDoc(doc, w), e) ELSE inbox[x]]
           /\ unsaved' = [unsaved EXCEPT ![e] =
                  [f \in Fields |->
                      IF lastTyped[e][f] = <<IF f = "meetingNote" THEN w.meetingNote
                                             ELSE w.requiresFollowUp>>
                      THEN FALSE ELSE @[f]]]
    /\ writing' = [writing EXCEPT ![e] = Tail(@)]
    /\ rejected' = [rejected EXCEPT ![e] = FALSE]
    /\ UNCHANGED <<open, meetingNote, followUp, focus, timer, lastTyped, typed, opens,
                   removal>>

\* The store rejects the oldest awaited write of e (catch: alert).
WriteRejects(e) ==
    /\ writing[e] # <<>>
    /\ writing' = [writing EXCEPT ![e] = Tail(@)]
    /\ rejected' = [rejected EXCEPT ![e] = TRUE]
    /\ UNCHANGED <<doc, open, meetingNote, followUp, focus, timer, inbox,
                   lastTyped, unsaved, typed, opens, removal>>

\* The onSnapshot callback runs with the pending snapshot.
SnapshotDelivered(e) ==
    /\ open[e]
    /\ inbox[e] # <<>>
    /\ inbox' = [inbox EXCEPT ![e] = <<>>]
    /\ LET d  == inbox[e][1].data
           mn == IF d # NoDoc /\ focus[e] # "meetingNote"
                 THEN OrEmpty(d[1].meetingNote) ELSE meetingNote[e]
           fu == IF d # NoDoc /\ focus[e] # "followUp"
                 THEN OrEmpty(d[1].requiresFollowUp) ELSE followUp[e]
       IN  /\ meetingNote' = [meetingNote EXCEPT ![e] = mn]
           /\ followUp' = [followUp EXCEPT ![e] = fu]
           /\ timer' = IF mn # meetingNote[e] \/ fu # followUp[e]
                       THEN [timer EXCEPT ![e] = Schedule(mn, fu)]
                       ELSE timer
    /\ UNCHANGED <<doc, open, focus, writing, lastTyped, unsaved, typed, opens, removal, rejected>>

\* handleDeleteFromDatabase: the user confirms and deleteDoc is awaited.
DeleteStart(e) ==
    /\ open[e]
    /\ removal[e] # "pending"
    /\ removal' = [removal EXCEPT ![e] = "pending"]
    /\ UNCHANGED <<doc, open, meetingNote, followUp, focus, timer, writing, inbox,
                   lastTyped, unsaved, typed, opens, rejected>>

\* deleteDoc resolves: the document is gone, the listeners are notified, and
\* setMeetingNote(""), setFollowUp("") re-run the auto-save effect when they
\* change the state of a mounted editor.
DeleteResolves(e) ==
    /\ removal[e] = "pending"
    /\ removal' = [removal EXCEPT ![e] = "done"]
    /\ doc' = NoDoc
    /\ inbox' = [x \in Editors |-> IF open[x] THEN Snapshot(NoDoc, e) ELSE inbox[x]]
    /\ IF open[e]
       THEN /\ meetingNote' = [meetingNote EXCEPT ![e] = EmptyText]
            /\ followUp' = [followUp EXCEPT ![e] = EmptyText]
            /\ timer' = IF meetingNote[e] # EmptyText \/ followUp[e] # EmptyText
                        THEN [timer EXCEPT ![e] = Schedule(EmptyText, EmptyText)]
                        ELSE timer
       ELSE UNCHANGED <<meetingNote, followUp, timer>>
    /\ UNCHANGED <<open, focus, writing, lastTyped, unsaved, typed, opens, rejected>>

\* deleteDoc rejects (catch: alert).
DeleteRejects(e) ==
    /\ removal[e] = "pending"
    /\ removal' = [removal EXCEPT ![e] = "none"]
    /\ UNCHANGED <<doc, open, meetingNote, followUp, focus, timer, writing, inbox,
                   lastTyped, unsaved, typed, opens, rejected>>

\* What one session does with its editor.
EditorStep(e) ==
    \/ OpenEditor(e)
    \/ CloseEditor(e)
    \/ \E to \in Fields \cup {"none"} : MoveFocus(e, to)
    \/ \E f \in Fields, text \in EditorTexts : TypeText(e, f, text)
    \/ TimerFires(e)
    \/ WriteResolves(e)
    \/ WriteRejects(e)
    \/ SnapshotDelivered(e)

\* Another session, as far as the first one can observe it: it opens the
\* editor of the same row, types and its auto-saves reach the store.
RemoteStep(e) ==
    \/ OpenEditor(e)
    \/ \E f \in Fields, text \in EditorTexts : TypeText(e, f, text)
    \/ TimerFires(e)
    \/ WriteResolves(e)

NextEditor == EditorStep("e1") \/ RemoteStep("e2")

SpecEditor == Init /\ artifact = NotFound /\ [][NextEditor /\ UNCHANGED <<svcVars, appVars>>]_vars

\* Two sessions with the editor open on the same row; the first one types
\* into the meeting note only, the second into the follow-up note only.
OwnField(e) == IF e = "e1" THEN "meetingNote" ELSE "followUp"

NextEditors ==
    \E e \in Editors :
        \/ OpenEditor(e)
        \/ \E text \in EditorTexts : TypeText(e, OwnField(e), text)
        \/ TimerFires(e)
        \/ WriteResolves(e)
        \/ SnapshotDelivered(e)

SpecEditors == Init /\ artifact = NotFound /\ [][NextEditors /\ UNCHANGED <<svcVars, appVars>>]_vars

\* One session that uses "Delete from Database" on a row that has notes in
\* the store.
NextDelete ==
    \/ OpenEditor("e1")
    \/ \E to \in Fields \cup {"none"} : MoveFocus("e1", to)
    \/ \E f \in Fields, text \in EditorTexts : TypeText("e1", f, text)
    \/ TimerFires("e1")
    \/ WriteResolves("e1")
    \/ SnapshotDelivered("e1")
    \/ doc # NoDoc /\ DeleteStart("e1")
    \/ DeleteResolves("e1")
    \/ DeleteRejects("e1")

SpecDelete == Init /\ artifact = NotFound /\ [][NextDelete /\ UNCHANGED <<svcVars, appVars>>]_vars

\* Two sessions whose writes the store may reject.
RetryStep(e) ==
    \/ OpenEditor(e)
    \/ \E text \in EditorTexts : TypeText(e, OwnField(e), text)
    \/ TimerFires(e)
    \/ WriteResolves(e)
    \/ WriteRejects(e)
    \/ SnapshotDelivered(e)

NextRetry == \E e \in Editors : RetryStep(e)

\* A timeout that is set fires, an awaited setDoc() settles, a snapshot that
\* arrived is handed to the listener; and the store does not reject for
\* ever: of writes attempted again and again, one is accepted.
RetryFairness ==
    \A e \in Editors :
        /\ WF_vars(TimerFires(e) /\ UNCHANGED <<svcVars, appVars>>)
        /\ WF_vars((WriteResolves(e) \/ WriteRejects(e)) /\ UNCHANGED <<svcVars, appVars>>)
        /\ SF_vars(WriteResolves(e) /\ UNCHANGED <<svcVars, appVars>>)
        /\ WF_vars(SnapshotDelivered(e) /\ UNCHANGED <<svcVars, appVars>>)

SpecRetry ==
    /\ Init /\ artifact = NotFound
    /\ [][NextRetry /\ UNCHANGED <<svcVars, appVars>>]_vars
    /\ RetryFairness

\* Two sessions that open the editor of a row, type into their own field
\* and close the editor at any time; every write is accepted.  A timeout
\* that is set fires, an awaited setDoc() resolves, a snapshot that arrived
\* is handed to the listener.
SpecClose ==
    /\ Init /\ artifact = NotFound
    /\ [][(\E e \in Editors :
              \/ OpenEditor(e)
              \/ CloseEditor(e)
              \/ \E text \in EditorTexts : TypeText(e, OwnField(e), text)
              \/ TimerFires(e)
              \/ WriteResolves(e)
              \/ SnapshotDelivered(e))
          /\ UNCHANGED <<svcVars, appVars>>]_vars
    /\ \A e \in Editors :
          /\ WF_vars(TimerFires(e) /\ UNCHANGED <<svcVars, appVars>>)
          /\ WF_vars(WriteResolves(e) /\ UNCHANGED <<svcVars, appVars>>)
          /\ WF_vars(SnapshotDelivered(e) /\ UNCHANGED <<svcVars, appVars>>)

\* ------------------------------------------------------ reconciliation

\* norm(s): s ? String(s).trim().toUpperCase() : ""
norm(s) == IF s = EmptyText THEN EmptyText ELSE ToUpperCase(Trim(s))

\* UTF-16 code units of the characters the model uses.
CharCode(ch) ==
    CASE ch = " " -> 32 [] ch = "A" -> 65 [] ch = "B" -> 66 [] ch = "a" -> 97
      [] ch = "b" -> 98 [] ch = "f" -> 102 [] ch = "m" -> 109 [] ch = "n" -> 110
      [] ch = "p" -> 112 [] OTHER -> 0

\* The order Array.prototype.sort() uses without a comparator.
RECURSIVE TextLeq(_, _)
TextLeq(s, t) ==
    IF s = <<>> THEN TRUE
    ELSE IF t = <<>> THEN FALSE
    ELSE IF Head(s) = Head(t) THEN TextLeq(Tail(s), Tail(t))
    ELSE CharCode(Head(s)) < CharCode(Head(t))

\* Array.from(set).sort()
RECURSIVE SortTexts(_)
SortTexts(S) ==
    IF S = {} THEN <<>>
    ELSE LET least == CHOOSE x \in S : \A y \in S : TextLeq(x, y)
         IN  <<least>> \o SortTexts(S \ {least})

\* ticketMap: tickets by normalized barcode, later rows overwrite earlier
\* ones, rows without a barcode are skipped.
RECURSIVE TicketMap(_)
TicketMap(tickets) ==
    IF tickets = <<>> THEN EmptyMap
    ELSE LET t  == tickets[Len(tickets)]
             bc == norm(t.Barcode)
             m  == TicketMap(SubSeq(tickets, 1, Len(tickets) - 1))
         IN  IF bc # EmptyText THEN MapSet(m, bc, t) ELSE m

\* categoryToPM: mapping entries by trimmed, upper-cased category.
RECURSIVE CategoryToPM(_)
CategoryToPM(mapping) ==
    IF mapping = <<>> THEN EmptyMap
    ELSE LET e   == mapping[Len(mapping)]
             cat == Trim(e.category)
             m   == CategoryToPM(SubSeq(mapping, 1, Len(mapping) - 1))
         IN  IF cat # EmptyText
             THEN MapSet(m, ToUpperCase(cat), [pm |-> OrEmpty(e.pm)])
             ELSE m

\* ticketMap.get(bc) || {}: the ticket as a one-element sequence, {} as <<>>.
TicketOf(ticketMap, bc) == IF bc \in DOMAIN ticketMap THEN <<ticketMap[bc]>> ELSE <<>>

\* A lookup by the category as spelled in the report row.
AssignedPMExact(categoryToPM, cat) ==
    IF cat \in DOMAIN categoryToPM THEN categoryToPM[cat].pm ELSE EmptyText

\* mapping?.pm || ""
AssignedPM(categoryToPM, cat) ==
    IF ToUpperCase(cat) \in DOMAIN categoryToPM
    THEN categoryToPM[ToUpperCase(cat)].pm ELSE EmptyText

\* A flag that is set on every row.
TicketMatchedAlways(ticket) == "Yes"

\* Object.keys(ticket).length > 0 ? "Yes" : "No"
TicketMatched(ticket) == IF ticket # <<>> THEN "Yes" ELSE "No"

\* Milliseconds per day.
MsPerDay == 86400000

\* Date.now() and new Date(): the clock stands at 2024-01-11T00:00Z, in
\* milliseconds since 2024-01-01T00:00Z.
Now == 864000000

\* new Date(dateStr).getTime() in milliseconds since 2024-01-01T00:00Z, as a
\* one-element sequence; <<>> for an invalid date.
DateTime(dateStr) ==
    CASE dateStr = <<"2", "0", "2", "4", "-", "0", "1", "-", "0", "1">> -> <<0>>
      [] dateStr = <<"2", "0", "2", "4", "-", "0", "1", "-", "0", "1", "T", "1", "8", ":", "0", "0", "Z">> -> <<64800000>>
      [] dateStr = <<"2", "0", "2", "4", "-", "0", "1", "-", "1", "2">> -> <<950400000>>
      [] OTHER -> <<>>

\* calculateAge: an age as a one-element sequence, "" as the empty text.
calculateAge(dateStr) ==
    LET d    == DateTime(OrEmpty(dateStr))
        diff == Now - d[1]
        days == (diff \div MsPerDay) + (IF 2 * (diff % MsPerDay) >= MsPerDay THEN 1 ELSE 0)
    IN  IF OrEmpty(dateStr) = EmptyText \/ d = <<>> THEN EmptyText
        ELSE IF days >= 0 THEN <<days>> ELSE EmptyText

\* ageInDays of the optimized and third variant.
ageInDays(dateStr) ==
    LET d    == DateTime(OrEmpty(dateStr))
        diff == IF Now >= d[1] THEN Now - d[1] ELSE d[1] - Now
    IN  IF OrEmpty(dateStr) = EmptyText \/ d = <<>> THEN EmptyText
        ELSE <<(diff \div MsPerDay) + (IF diff % MsPerDay > 0 THEN 1 ELSE 0)>>

\* The merged record of one report row.
CombinedRow(r, tickets, mapping) ==
    LET ticket == TicketOf(TicketMap(tickets), norm(r.Barcode))
        cat    == Trim(r.Category)
    IN  [MeetingNote       |-> EmptyText,
         RequiresFollowUp  |-> EmptyText,
         AssignedTo        |-> AssignedPM(CategoryToPM(mapping), cat),
         Barcode           |-> IF r.Barcode # EmptyText THEN r.Barcode
                               ELSE IF ticket # <<>> THEN ticket[1].Barcode
                               ELSE EmptyText,
         TicketDescription |-> IF ticket # <<>> THEN ticket[1].Notes ELSE EmptyText,
         Category          |-> r.Category,
         RepairTicket      |-> OrEmpty(r.Ticket),
         AssetRepairAge    |-> calculateAge(r.DateIn),
         TicketMatched     |-> TicketMatched(ticket)]

\* A join that drops the report rows without a barcode.
CombinedWithBarcode(tickets, reports, mapping) ==
    LET kept == SelectSeq(reports, LAMBDA r : r.Barcode # EmptyText)
    IN  [i \in DOMAIN kept |-> CombinedRow(kept[i], tickets, mapping)]

\* reportData.map(...)
Combined(tickets, reports, mapping) ==
    [i \in DOMAIN reports |-> CombinedRow(reports[i], tickets, mapping)]

\* The categories added to the unmatched set while the rows are built.
Unmatched(reports, mapping) ==
    {Trim(reports[i].Category) : i \in
        {j \in DOMAIN reports :
            /\ Trim(reports[j].Category) # EmptyText
            /\ AssignedPM(CategoryToPM(mapping), Trim(reports[j].Category)) = EmptyText}}

\* ------------------------------------------------------- app: actions

\* How many rows a loaded ticket, report or mapping file has at most.
MaxRows == 2

\* Report rows: barcodes that differ in case and whitespace only, a row
\* without a barcode, categories in several spellings, a row without one;
\* ticket numbers with separators, decimals, letters; dates ten days and
\* nine and a quarter days before the clock, one day after it, and no date.
ReportRows ==
    {[Barcode |-> <<" ", "a">>, Category |-> <<"a", " ">>,
      Ticket |-> <<"1", ",", "2", ".", "9">>,
      DateIn |-> <<"2", "0", "2", "4", "-", "0", "1", "-", "0", "1">>],
     [Barcode |-> <<"A">>,      Category |-> EmptyText,
      Ticket |-> <<"4", "2">>,
      DateIn |-> <<"2", "0", "2", "4", "-", "0", "1", "-", "0", "1", "T", "1", "8", ":", "0", "0", "Z">>],
     [Barcode |-> EmptyText,    Category |-> <<"A">>,
      Ticket |-> <<"a", "b">>,
      DateIn |-> <<"2", "0", "2", "4", "-", "0", "1", "-", "1", "2">>],
     [Barcode |-> <<"b">>,      Category |-> <<"b">>,
      Ticket |-> EmptyText,
      DateIn |-> <<"x">>]}

\* Ticket rows: two with the same normalized barcode, one with blanks only.
TicketRows ==
    {[Barcode |-> <<"a">>,      Notes |-> <<"n">>],
     [Barcode |-> <<"A", " ">>, Notes |-> <<"m">>],
     [Barcode |-> <<" ">>,      Notes |-> <<"n">>]}

\* Mapping entries: two spellings of one category, one of them without a pm.
MappingEntries ==
    {[category |-> <<"a">>,      pm |-> <<"p">>],
     [category |-> <<"A", " ">>, pm |-> EmptyText],
     [category |-> <<"b">>,      pm |-> <<"p">>]}

\* All lists of at most n elements of S.
SeqsUpTo(S, n) == UNION {[1..k -> S] : k \in 0..n}

\* row["Barcode#"] of every merged record, .filter(Boolean)
Barcodes(rows) == {rows[i].Barcode : i \in DOMAIN rows} \ {EmptyText}

\* The notes a listener puts into notesMap for a document.
NotesOfDoc(d) ==
    IF d = NoDoc
    THEN [meetingNote |-> EmptyText, requiresFollowUp |-> EmptyText]
    ELSE [meetingNote |-> OrEmpty(d[1].meetingNote),
          requiresFollowUp |-> OrEmpty(d[1].requiresFollowUp)]

\* A merge that leaves the base rows as they are.
MergedRowNoNotes(row, nm) == row

\* { ...row, "Meeting Note": n?.meetingNote || "", "Requires Follow Up": ... }
MergedRow(row, nm) ==
    IF row.Barcode \in DOMAIN nm
    THEN [row EXCEPT !.MeetingNote = OrEmpty(nm[row.Barcode].meetingNote),
                     !.RequiresFollowUp = OrEmpty(nm[row.Barcode].requiresFollowUp)]
    ELSE [row EXCEPT !.MeetingNote = EmptyText, !.RequiresFollowUp = EmptyText]

\* The live-merge effect for merged records rows and notes nm: the cleanup
\* of the previous run has dropped every listener; every barcode of rows is
\* subscribed to again and the merged rows are displayed.
LiveMerge(rows, nm) ==
    /\ combinedDataWithNotes' = [i \in DOMAIN rows |-> MergedRow(rows[i], nm)]
    /\ notesListeners' = Barcodes(rows)
    /\ snaps' = Barcodes(rows)

\* A render after ticketData, reportData or categoryMapping were set: the
\* memo is recomputed (and sets unmatchedCategories unless it returns
\* early), then the live-merge effect runs.
Render(tickets, reports, mapping, nm) ==
    /\ ticketData' = tickets
    /\ reportData' = reports
    /\ categoryMapping' = mapping
    /\ notesMap' = nm
    /\ IF reports = <<>>
       THEN /\ baseCombinedData' = <<>>
            /\ UNCHANGED unmatchedCategories
            /\ LiveMerge(<<>>, nm)
       ELSE /\ baseCombinedData' = Combined(tickets, reports, mapping)
            /\ unmatchedCategories' = SortTexts(Unmatched(reports, mapping))
            /\ LiveMerge(Combined(tickets, reports, mapping), nm)

\* loadFromSharePoint: the three files are read and set together.
LoadFromSharePoint(tickets, reports, mapping) ==
    /\ Render(tickets, reports, mapping, notesMap)
    /\ UNCHANGED <<repairNotes, pageVars>>

\* handleLogout
HandleLogout ==
    /\ Render(<<>>, <<>>, <<>>, EmptyMap)
    /\ UNCHANGED <<repairNotes, pageVars>>

\* The first load of a session, for every ticket, report and mapping file.
FirstLoad ==
    /\ ticketData = <<>> /\ reportData = <<>> /\ categoryMapping = <<>>
    /\ \E tickets \in SeqsUpTo(TicketRows, MaxRows),
          reports \in SeqsUpTo(ReportRows, MaxRows),
          mapping \in SeqsUpTo(MappingEntries, MaxRows) :
            LoadFromSharePoint(tickets, reports, mapping)

NextReconcile == FirstLoad

SpecReconcile ==
    Init /\ artifact = NotFound /\ [][NextReconcile /\ UNCHANGED <<svcVars, edVars>>]_vars

\* The mapping list with the entry for category replaced, or the entry
\* appended when no entry has the category after trim + upper-case.
UpsertMapping(mapping, category, pm) ==
    LET entry == [category |-> Trim(category), pm |-> Trim(pm)]
        hits == {i \in DOMAIN mapping :
                    ToUpperCase(Trim(mapping[i].category)) = ToUpperCase(Trim(category))}
        first == CHOOSE i \in hits : \A j \in hits : i <= j
    IN  IF hits # {} THEN [mapping EXCEPT ![first] = entry]
                     ELSE Append(mapping, entry)

\* addCategoryMapping(category, pm)
AddCategoryMapping(category, pm) ==
    /\ Len(UpsertMapping(categoryMapping, category, pm)) <= MaxRows
    /\ Render(ticketData, reportData, UpsertMapping(categoryMapping, category, pm), notesMap)
    /\ UNCHANGED <<repairNotes, pageVars>>

\* A removal that keeps the entries of the category.
KeepMapping(mapping, category) == mapping

\* The mapping list without the entries for category.
FilterMapping(mapping, category) ==
    SelectSeq(mapping, LAMBDA m :
        ToUpperCase(Trim(m.category)) # ToUpperCase(Trim(category)))

\* removeCategoryMapping(category): the button of a listed entry.
RemoveCategoryMapping(category) ==
    /\ \E i \in DOMAIN categoryMapping : categoryMapping[i].category = category
    /\ Render(ticketData, reportData, FilterMapping(categoryMapping, category), notesMap)
    /\ UNCHANGED <<repairNotes, pageVars>>

\* Manual upload of a ticket file.
UploadTickets(rows) ==
    /\ Render(rows, reportData, categoryMapping, notesMap)
    /\ UNCHANGED <<repairNotes, pageVars>>

\* Manual upload of a report file.
UploadReports(rows) ==
    /\ Render(ticketData, rows, categoryMapping, notesMap)
    /\ UNCHANGED <<repairNotes, pageVars>>

\* Manual upload of a category mapping file.
UploadMapping(json) ==
    /\ Render(ticketData, reportData, json, notesMap)
    /\ UNCHANGED <<repairNotes, pageVars>>

\* The ticket files of a session.
TicketFiles ==
    {<<>>,
     <<[Barcode |-> <<"a">>, Notes |-> <<"n">>],
       [Barcode |-> <<"A", " ">>, Notes |-> <<"m">>]>>}

\* The report files of a session: no rows, a row without a barcode, rows
\* with different barcodes, rows whose barcodes differ in case and blanks.
ReportFiles ==
    {<<>>,
     <<[Barcode |-> EmptyText, Category |-> <<"A">>, Ticket |-> EmptyText, DateIn |-> EmptyText]>>,
     <<[Barcode |-> <<" ", "a">>, Category |-> <<"a", " ">>, Ticket |-> EmptyText, DateIn |-> EmptyText],
       [Barcode |-> <<"b">>, Category |-> <<"b">>, Ticket |-> EmptyText, DateIn |-> EmptyText]>>,
     <<[Barcode |-> <<" ", "a">>, Category |-> <<"b">>, Ticket |-> EmptyText, DateIn |-> EmptyText],
       [Barcode |-> <<"A">>, Category |-> EmptyText, Ticket |-> EmptyText, DateIn |-> EmptyText]>>}

\* The mapping files of a session; every entry carries a pm, the last file
\* has two entries for one category in two spellings.
MappingFiles ==
    {<<>>,
     <<[category |-> <<"a">>, pm |-> <<"p">>]>>,
     <<[category |-> <<"b">>, pm |-> <<"p">>]>>,
     <<[category |-> <<"a">>, pm |-> <<"r">>],
       [category |-> <<"A", " ">>, pm |-> <<"r">>]>>}

\* What the user types into the Add Mapping form.
FormCategories == {<<"a">>, <<"A", " ">>, <<"b">>}
FormPMs == {<<"p">>, <<" ", "q">>}

\* A session of loads, uploads, mapping edits and logouts.
NextApp ==
    \/ \E tickets \in TicketFiles, reports \in ReportFiles, mapping \in MappingFiles :
            LoadFromSharePoint(tickets, reports, mapping)
    \/ \E rows \in TicketFiles : UploadTickets(rows)
    \/ \E rows \in ReportFiles : UploadReports(rows)
    \/ \E json \in MappingFiles : UploadMapping(json)
    \/ \E category \in FormCategories, pm \in FormPMs : AddCategoryMapping(category, pm)
    \/ \E i \in DOMAIN categoryMapping : RemoveCategoryMapping(categoryMapping[i].category)
    \/ HandleLogout

SpecApp ==
    Init /\ artifact = NotFound /\ [][NextApp /\ UNCHANGED <<svcVars, edVars>>]_vars

\* --------------------------------------------------- app: live notes

\* The auto-save of the RowEditor opened on displayed row i has written its
\* two fields; the listener of the document, if there is one, is notified.
RowAutoSave(i) ==
    LET bc == combinedDataWithNotes[i].Barcode
    IN  /\ bc # EmptyText
        /\ repairNotes' = [repairNotes EXCEPT ![bc] = Doc(<<"n">>, <<"f">>)]
        /\ snaps' = snaps \cup ({bc} \cap notesListeners)
        /\ UNCHANGED <<ticketData, reportData, categoryMapping, baseCombinedData,
                       unmatchedCategories, notesMap, notesListeners,
                       combinedDataWithNotes, pageVars>>

\* "Delete from Database" of the RowEditor opened on displayed row i.
RowDelete(i) ==
    LET bc == combinedDataWithNotes[i].Barcode
    IN  /\ bc # EmptyText
        /\ repairNotes[bc] # NoDoc
        /\ repairNotes' = [repairNotes EXCEPT ![bc] = NoDoc]
        /\ snaps' = snaps \cup ({bc} \cap notesListeners)
        /\ UNCHANGED <<ticketData, reportData, categoryMapping, baseCombinedData,
                       unmatchedCategories, notesMap, notesListeners,
                       combinedDataWithNotes, pageVars>>

\* The onSnapshot callback of the listener on bc: notesMap gets a new entry,
\* the live-merge effect runs again for the new notesMap.
SnapshotCallback(bc) ==
    /\ bc \in snaps
    /\ notesMap' = MapSet(notesMap, bc, NotesOfDoc(repairNotes[bc]))
    /\ LiveMerge(baseCombinedData, notesMap')
    /\ UNCHANGED <<ticketData, reportData, categoryMapping, baseCombinedData,
                   unmatchedCategories, repairNotes, pageVars>>

\* A session that loads data, edits notes in row editors and logs out,
\* while the listeners deliver their snapshots.
NextMerge ==
    \/ \E tickets \in TicketFiles, reports \in ReportFiles :
            LoadFromSharePoint(tickets, reports, categoryMapping)
    \/ \E i \in DOMAIN combinedDataWithNotes : RowAutoSave(i)
    \/ \E i \in DOMAIN combinedDataWithNotes : RowDelete(i)
    \/ \E bc \in DocIds : SnapshotCallback(bc)
    \/ HandleLogout

SpecMerge ==
    Init /\ artifact = NotFound /\ [][NextMerge /\ UNCHANGED <<svcVars, edVars>>]_vars

\* One load of a session and the snapshots of its listeners: the base data
\* stays as loaded, no note of the store changes, and a listener that has a
\* snapshot to deliver is called with it.
SpecQuiesce ==
    /\ Init /\ artifact = NotFound
    /\ [][(FirstLoad \/ \E bc \in DocIds : SnapshotCallback(bc))
          /\ UNCHANGED <<svcVars, edVars>>]_vars
    /\ \A bc \in DocIds : WF_vars(SnapshotCallback(bc) /\ UNCHANGED <<svcVars, edVars>>)

\* ------------------------------------- app: paginated variant, import

\* The page shown, the rows of a page, the rows subscribed to before and
\* after the page, and the most listeners kept.
PageBuffer == 25
MAX_LISTENERS == 100

\* How many writes (imports and edits of another session) a run starts.
MaxWrites == 2

Min(a, b) == IF a <= b THEN a ELSE b
Max(a, b) == IF a >= b THEN a ELSE b

\* pageBarcodes: the barcodes of the rows of the page and its buffer,
\* without the empty ones, cut to the first MAX_LISTENERS.
PageBarcodes(rows, page, size) ==
    LET startIdx == Max(0, (page - 1) * size - PageBuffer)
        endIdx   == Min(Len(rows), page * size + PageBuffer)
        filled   == SelectSeq(SubSeq(rows, startIdx + 1, endIdx),
                              LAMBDA row : row.Barcode # EmptyText)
    IN  {filled[i].Barcode : i \in 1..Min(Len(filled), MAX_LISTENERS)}

\* notesMap.get(bc) || notesCache.get(bc) || blank notes
PagedMergedRow(row, nm, cache) ==
    LET notes == IF row.Barcode \in DOMAIN nm THEN nm[row.Barcode]
                 ELSE IF row.Barcode \in DOMAIN cache THEN cache[row.Barcode]
                 ELSE [meetingNote |-> EmptyText, requiresFollowUp |-> EmptyText]
    IN  [row EXCEPT !.MeetingNote = notes.meetingNote,
                    !.RequiresFollowUp = notes.requiresFollowUp]

\* The live-merge effect of the paginated variant: every listener is
\* dropped by the cleanup of the previous run, the barcodes of the page are
\* subscribed to again, the merged rows are displayed.
PagedLiveMerge(rows, nm, cache, page, size) ==
    /\ combinedDataWithNotes' = [i \in DOMAIN rows |-> PagedMergedRow(rows[i], nm, cache)]
    /\ notesListeners' = PageBarcodes(rows, page, size)
    /\ snaps' = PageBarcodes(rows, page, size)

\* categoryToPM of the paginated variant: entries without a category or
\* without a pm are left out, a later entry of a category replaces the
\* earlier one.
RECURSIVE CategoryToPMAssigned(_)
CategoryToPMAssigned(mapping) ==
    IF mapping = <<>> THEN EmptyMap
    ELSE LET e == mapping[Len(mapping)]
             m == CategoryToPMAssigned(SubSeq(mapping, 1, Len(mapping) - 1))
         IN  IF OrEmpty(e.category) # EmptyText /\ OrEmpty(e.pm) # EmptyText
             THEN MapSet(m, ToUpperCase(Trim(e.category)), [pm |-> e.pm])
             ELSE m

\* The decimal digits, in order.
DecimalDigits == <<"0", "1", "2", "3", "4", "5", "6", "7", "8", "9">>

\* The number a sequence of decimal digits denotes.
RECURSIVE DigitsValue(_)
DigitsValue(ds) ==
    IF ds = <<>> THEN 0
    ELSE 10 * DigitsValue(SubSeq(ds, 1, Len(ds) - 1))
         + (CHOOSE v \in 0..9 : DecimalDigits[v + 1] = ds[Len(ds)])

\* String(n) of a natural number n.
RECURSIVE NatToText(_)
NatToText(n) ==
    IF n < 10 THEN <<DecimalDigits[n + 1]>>
    ELSE NatToText(n \div 10) \o <<DecimalDigits[(n % 10) + 1]>>

\* Math.floor(parseFloat(s)) of a text of digits and dots, <<>> for NaN:
\* parseFloat reads the longest prefix that is a decimal literal.
FloorOfParseFloat(s) ==
    LET isDigit(ch) == \E v \in 1..10 : DecimalDigits[v] = ch
        stops == {i \in DOMAIN s : ~isDigit(s[i])}
        lead  == IF stops = {} THEN s
                 ELSE SubSeq(s, 1, (CHOOSE i \in stops : \A j \in stops : i <= j) - 1)
    IN  IF lead # <<>> THEN <<DigitsValue(lead)>>
        ELSE IF Len(s) >= 2 /\ s[1] = "." /\ isDigit(s[2]) THEN <<0>>
        ELSE <<>>

\* formatTicketNumber
formatTicketNumber(ticket) ==
    LET cleaned == SelectSeq(OrEmpty(ticket),
                             LAMBDA ch : ch = "." \/ \E v \in 1..10 : DecimalDigits[v] = ch)
        num     == FloorOfParseFloat(cleaned)
    IN  IF OrEmpty(ticket) = EmptyText \/ num = <<>> THEN EmptyText
        ELSE NatToText(num[1])

\* The merged record of one report row in the paginated variant.
PagedCombinedRow(r, tickets, mapping) ==
    [CombinedRow(r, tickets, mapping) EXCEPT
        !.AssignedTo = AssignedPM(CategoryToPMAssigned(mapping), Trim(r.Category)),
        !.RepairTicket = formatTicketNumber(r.Ticket),
        !.AssetRepairAge = ageInDays(r.DateIn)]

PagedCombined(tickets, reports, mapping) ==
    [i \in DOMAIN reports |-> PagedCombinedRow(reports[i], tickets, mapping)]

\* unmatchedSet: the categories of the rows that got no pm.
UnmatchedOf(rows) ==
    {Trim(rows[i].Category) : i \in
        {j \in DOMAIN rows :
            Trim(rows[j].Category) # EmptyText /\ rows[j].AssignedTo = EmptyText}}

\* The first load of a session, without a ticket file.
PagedLoad(reports, mapping) ==
    /\ reportData = <<>> /\ categoryMapping = <<>>
    /\ reportData' = reports
    /\ categoryMapping' = mapping
    /\ IF reports = <<>>
       THEN /\ baseCombinedData' = <<>>
            /\ UNCHANGED unmatchedCategories
            /\ PagedLiveMerge(<<>>, notesMap, appNotesCache, currentPage, itemsPerPage)
       ELSE /\ baseCombinedData' = PagedCombined(ticketData, reports, mapping)
            /\ unmatchedCategories' =
                  SortTexts(UnmatchedOf(PagedCombined(ticketData, reports, mapping)))
            /\ PagedLiveMerge(PagedCombined(ticketData, reports, mapping),
                              notesMap, appNotesCache, currentPage, itemsPerPage)
    /\ UNCHANGED <<ticketData, notesMap, repairNotes, pageVars>>

\* The paginated variant's reconciliation of every report and mapping file.
NextPagedReconcile ==
    \E reports \in SeqsUpTo(ReportRows, MaxRows),
       mapping \in SeqsUpTo(MappingEntries, MaxRows) : PagedLoad(reports, mapping)

SpecPagedReconcile ==
    Init /\ artifact = NotFound /\ [][NextPagedReconcile /\ UNCHANGED <<svcVars, edVars>>]_vars

\* The onSnapshot callback of the listener on bc.  While an import runs it
\* returns at once; otherwise notesMap and the cache get the notes of the
\* snapshot and the live-merge effect runs again.
PagedSnapshotCallback(bc) ==
    /\ bc \in snaps
    /\ IF ~isImporting
       THEN /\ notesMap' = MapSet(notesMap, bc, NotesOfDoc(repairNotes[bc]))
            /\ appNotesCache' = MapSet(appNotesCache, bc, NotesOfDoc(repairNotes[bc]))
            /\ PagedLiveMerge(baseCombinedData, notesMap', appNotesCache',
                                 currentPage, itemsPerPage)
       ELSE /\ snaps' = snaps \ {bc}
            /\ UNCHANGED <<notesMap, appNotesCache, notesListeners, combinedDataWithNotes>>
    /\ UNCHANGED <<ticketData, reportData, categoryMapping, baseCombinedData,
                   unmatchedCategories, repairNotes, isImporting, importBatch, writes,
                   pagerVars>>

\* The rows-per-page choices of the selector.
PageSizes == {50, 100, 200, 500, 1000, 99999}

\* A report of 200 rows, every row with a barcode: the first 175 rows carry
\* one barcode, the next 24 a second one, the last row a third one.
LargeReport ==
    [i \in 1..200 |->
        [Barcode  |-> IF i <= 175 THEN <<"A">> ELSE IF i < 200 THEN <<" ", "a">> ELSE <<"b">>,
         Category |-> EmptyText, Ticket |-> EmptyText, DateIn |-> EmptyText]]

\* totalPages of the table: Math.ceil(data.length / itemsPerPage)
TotalPages == (Len(combinedDataWithNotes) + itemsPerPage - 1) \div itemsPerPage

\* A pagination button (first, previous, next, last) is pressed: the page
\* changes and the live-merge effect runs for the new page.
SetCurrentPage(p) ==
    /\ TotalPages > 1
    /\ p \in {1, Max(1, currentPage - 1), Min(TotalPages, currentPage + 1), TotalPages}
    /\ p # currentPage
    /\ currentPage' = p
    /\ IF baseCombinedData = <<>>
       THEN /\ combinedDataWithNotes' = <<>>
            /\ UNCHANGED <<notesListeners, snaps>>
       ELSE PagedLiveMerge(baseCombinedData, notesMap, appNotesCache, p, itemsPerPage)
    /\ UNCHANGED <<ticketData, reportData, categoryMapping, baseCombinedData,
                   unmatchedCategories, notesMap, repairNotes, isImporting,
                   importBatch, appNotesCache, writes, itemsPerPage>>

\* The rows-per-page selector is changed: the size is set and the page is
\* set to 1.  The live-merge effect depends on currentPage and not on the
\* page size: it runs again only when the page was not 1.
SetItemsPerPage(size) ==
    /\ size # itemsPerPage
    /\ itemsPerPage' = size
    /\ currentPage' = 1
    /\ IF currentPage = 1
       THEN UNCHANGED <<combinedDataWithNotes, notesListeners, snaps>>
       ELSE IF baseCombinedData = <<>>
            THEN /\ combinedDataWithNotes' = <<>>
                 /\ UNCHANGED <<notesListeners, snaps>>
            ELSE PagedLiveMerge(baseCombinedData, notesMap, appNotesCache, 1, size)
    /\ UNCHANGED <<ticketData, reportData, categoryMapping, baseCombinedData,
                   unmatchedCategories, notesMap, repairNotes, isImporting,
                   importBatch, appNotesCache, writes>>

\* The sheets a notes import reads: one row; rows for one barcode in two
\* spellings and a row without a barcode.
ImportFiles ==
    {<<[Barcode |-> <<"A">>, MeetingNote |-> <<"n">>, RequiresFollowUp |-> <<"f">>]>>,
     <<[Barcode |-> <<"b", " ">>, MeetingNote |-> <<"m">>, RequiresFollowUp |-> EmptyText],
       [Barcode |-> <<" ">>, MeetingNote |-> <<"m">>, RequiresFollowUp |-> EmptyText],
       [Barcode |-> <<"b">>, MeetingNote |-> <<"n">>, RequiresFollowUp |-> EmptyText]>>}

\* byBarcode: the rows of the sheet by trimmed barcode, the last row of a
\* barcode winning, rows without a barcode skipped.
RECURSIVE ByBarcode(_)
ByBarcode(rows) ==
    IF rows = <<>> THEN EmptyMap
    ELSE LET r    == rows[Len(rows)]
             rest == ByBarcode(SubSeq(rows, 1, Len(rows) - 1))
         IN  IF Trim(r.Barcode) = EmptyText \/ Trim(r.Barcode) \in DOMAIN rest
             THEN rest
             ELSE MapSet(rest, Trim(r.Barcode),
                         [meetingNote |-> r.MeetingNote,
                          requiresFollowUp |-> r.RequiresFollowUp])

\* importNotesFromExcel(file) up to its batch.commit()
ImportStart(file) ==
    /\ ~isImporting
    /\ writes < MaxWrites
    /\ isImporting' = TRUE
    /\ importBatch' = <<ByBarcode(file)>>
    /\ writes' = writes + 1
    /\ UNCHANGED <<ticketData, reportData, categoryMapping, baseCombinedData,
                   unmatchedCategories, notesMap, notesListeners, snaps,
                   combinedDataWithNotes, repairNotes, appNotesCache,
                   pagerVars>>

\* The batch is committed: every document of the batch is set (merge), the
\* listeners of these documents are notified.
ImportCommit ==
    /\ importBatch # <<>>
    /\ repairNotes' =
          [id \in DocIds |->
              IF id \in DOMAIN importBatch[1]
              THEN Doc(importBatch[1][id].meetingNote, importBatch[1][id].requiresFollowUp)
              ELSE repairNotes[id]]
    /\ snaps' = snaps \cup (DOMAIN importBatch[1] \cap notesListeners)
    /\ importBatch' = <<>>
    /\ UNCHANGED <<ticketData, reportData, categoryMapping, baseCombinedData,
                   unmatchedCategories, notesMap, notesListeners,
                   combinedDataWithNotes, isImporting, appNotesCache, writes,
                   pagerVars>>

\* batch.commit() rejects: nothing is written.
ImportFails ==
    /\ importBatch # <<>>
    /\ importBatch' = <<>>
    /\ UNCHANGED <<ticketData, reportData, categoryMapping, baseCombinedData,
                   unmatchedCategories, notesMap, notesListeners, snaps,
                   combinedDataWithNotes, repairNotes, isImporting, appNotesCache,
                   writes,
                   pagerVars>>

\* finally { setIsImporting(false) }
ImportEnd ==
    /\ isImporting
    /\ importBatch = <<>>
    /\ isImporting' = FALSE
    /\ UNCHANGED <<ticketData, reportData, categoryMapping, baseCombinedData,
                   unmatchedCategories, notesMap, notesListeners, snaps,
                   combinedDataWithNotes, repairNotes, importBatch, appNotesCache,
                   writes,
                   pagerVars>>

\* The row editor of another session has saved its notes for bc.
RemoteWrite(bc) ==
    /\ writes < MaxWrites
    /\ writes' = writes + 1
    /\ repairNotes' = [repairNotes EXCEPT ![bc] = Doc(<<"m">>, <<"f">>)]
    /\ snaps' = snaps \cup ({bc} \cap notesListeners)
    /\ UNCHANGED <<ticketData, reportData, categoryMapping, baseCombinedData,
                   unmatchedCategories, notesMap, notesListeners,
                   combinedDataWithNotes, isImporting, importBatch, appNotesCache,
                   pagerVars>>

\* A session that loads the large report and pages through it while the
\* listeners deliver their snapshots and another session writes notes.
SpecPages ==
    /\ Init /\ artifact = NotFound
    /\ [][(\/ PagedLoad(LargeReport, <<>>)
           \/ \E bc \in DocIds : PagedSnapshotCallback(bc)
           \/ \E p \in 1..4 : SetCurrentPage(p)
           \/ \E size \in PageSizes : SetItemsPerPage(size)
           \/ \E bc \in DocIds : RemoteWrite(bc))
          /\ UNCHANGED <<svcVars, edVars>>]_vars

NextImport ==
    \/ \E reports \in ReportFiles : PagedLoad(reports, <<>>)
    \/ \E bc \in DocIds : PagedSnapshotCallback(bc)
    \/ \E file \in ImportFiles : ImportStart(file)
    \/ ImportCommit
    \/ ImportFails
    \/ ImportEnd
    \/ \E bc \in DocIds : RemoteWrite(bc)

\* Every snapshot is delivered, every commit settles, every import ends.
ImportFairness ==
    /\ \A bc \in DocIds :
          WF_vars(PagedSnapshotCallback(bc) /\ UNCHANGED <<svcVars, edVars>>)
    /\ WF_vars((ImportCommit \/ ImportFails) /\ UNCHANGED <<svcVars, edVars>>)
    /\ WF_vars(ImportEnd /\ UNCHANGED <<svcVars, edVars>>)

SpecImport ==
    /\ Init /\ artifact = NotFound
    /\ [][NextImport /\ UNCHANGED <<svcVars, edVars>>]_vars
    /\ ImportFairness

\* ------------------------------------------------------ specifications

\* One session: edits, flushes and loads in any interleaving.
Next == EditStep("c1") \/ SaveStep("c1") \/ LoadStep("c1")

Spec == Init /\ [][Next /\ UNCHANGED <<edVars, appVars>>]_vars

\* One session that edits, flushes and imports.
SpecImportNotes ==
    Init /\ [][(EditStep("c1") \/ SaveStep("c1") \/ ImportNotes("c1", ImportList))
                 /\ UNCHANGED <<edVars, appVars>>]_vars

\* One session that never reloads.
NextEdits == EditStep("c1") \/ SaveStep("c1")

SpecEdits == Init /\ [][NextEdits /\ UNCHANGED <<edVars, appVars>>]_vars

\* Two sessions on the same artifact, each editing its own barcode.
OwnUpdate(c) ==
    IF c = "c1" THEN [bc |-> <<"A">>, mn |-> <<"m">>, fu |-> <<"f">>]
                ELSE [bc |-> <<"b">>, mn |-> <<"n">>, fu |-> Undefined]

\* A session loads the notes when it starts, then edits and flushes.
NextTwo ==
    \E c \in Clients :
        \/ base[c] = <<>> /\ LoadStep(c)
        \/ /\ base[c] # <<>>
           /\ load[c].pc = "idle"
           /\ edits[c] < MaxEdits
           /\ UpdateNote(c, OwnUpdate(c).bc, OwnUpdate(c).mn, OwnUpdate(c).fu)
        \/ SaveStep(c)

SpecTwo == Init /\ [][NextTwo /\ UNCHANGED <<edVars, appVars>>]_vars

\* ------------------------------------------------------ service: claims

InFlight(c) == {s \in Slots : calls[c][s].pc # "idle"}

\* The value getNote(k) has to return for a queue entry or an edit e.
Pending(k, e) == IF e = Null THEN EmptyShell(k) ELSE e[1]

\* A step in which the awaited call of the save in slot s rejects.
SaveFails(c, s) ==
    /\ calls[c][s].pc # "idle"
    /\ calls'[c][s].pc = "idle"
    /\ ret'.io = "error"

\* A step in which the upload of the save in slot s succeeds.
SaveSucceeds(c, s) ==
    /\ calls[c][s].pc = "upload"
    /\ calls'[c][s].pc = "idle"
    /\ ret'.io = "ok"

\* A step in which a saveToSharePoint() call takes its batch into slot s.
SaveTakesBatch(c, s) ==
    /\ calls[c][s].pc = "idle"
    /\ calls'[c][s].pc # "idle"

\* C1: when an awaited step of saveToSharePoint() rejects, the call rejects,
\* isSaving is false again and every entry of the failed batch (notes and
\* deletions) is in saveQueue; the next call takes the whole queue as its
\* batch, and an upload that succeeds leaves every entry of its batch in
\* the artifact (a note as its row, a deletion as no row).
C1_RequeueOnFailure ==
    [][\A c \in Clients, s \in Slots :
          /\ SaveFails(c, s) =>
                /\ ret'.out = "rejected"
                /\ ~isSaving'[c]
                /\ \A k \in DOMAIN calls[c][s].batch :
                      /\ k \in DOMAIN saveQueue'[c]
                      /\ saveQueue'[c][k] = calls[c][s].batch[k]
          /\ SaveTakesBatch(c, s) =>
                /\ calls'[c][s].batch = saveQueue[c]
                /\ saveQueue[c] # EmptyMap
          /\ SaveSucceeds(c, s) =>
                /\ ret'.out = "resolved"
                /\ \A k \in DOMAIN calls[c][s].batch :
                      IF calls[c][s].batch[k] = Null
                      THEN k \notin DOMAIN FreshLoad'
                      ELSE /\ k \in DOMAIN FreshLoad'
                           /\ FreshLoad'[k] = calls[c][s].batch[k][1]
      ]_vars

\* C1 witness: a flush has just rejected and the queue again holds a note
\* and a deletion.
C1_Witness ==
    /\ ret.op = "saveToSharePoint" /\ ret.out = "rejected"
    /\ ~isSaving["c1"]
    /\ \E k1, k2 \in DOMAIN saveQueue["c1"] :
          saveQueue["c1"][k1] = Null /\ saveQueue["c1"][k2] # Null

\* C2: once updateNote(bc, note, undefined) on a barcode that had a note has
\* been flushed successfully, a fresh load returns the new meeting note and
\* the follow-up note the barcode had before the call.
C2_OmittedFieldKept ==
    \A k \in Keys :
        (priorFollowUp["c1"][k] # <<>> /\ sync["c1"][k] = "clean") =>
            /\ k \in DOMAIN FreshLoad
            /\ FreshLoad[k].meetingNote = lastEdit["c1"][k][1][1].meetingNote
            /\ FreshLoad[k].requiresFollowUp = priorFollowUp["c1"][k][1]

\* C3: at most one saveToSharePoint() call of an instance is between taking
\* its batch and settling, isSaving is set while it is, and a call made
\* meanwhile returns at once: it changes neither cache, queue, artifact nor
\* the flag and the suspended call.
C3_FlushesDoNotInterleave ==
    /\ [](\A c \in Clients :
             /\ Cardinality(InFlight(c)) <= 1
             /\ InFlight(c) # {} => isSaving[c])
    /\ [][(/\ ret'.op = "saveToSharePoint"
            /\ ret'.out \in {"skipped", "nochanges"}
            /\ InFlight(ret'.client) # {}) =>
             /\ isSaving'[ret'.client]
             /\ UNCHANGED <<notesCache, saveQueue, isSaving, calls, load, artifact>>
         ]_vars

\* C3 witness: a call was skipped while another one is suspended at its await.
C3_Witness ==
    /\ ret.op = "saveToSharePoint" /\ ret.out = "skipped"
    /\ Cardinality(InFlight("c1")) = 1
    /\ saveQueue["c1"] # EmptyMap

\* C4: an edit made while a flush is in flight stays the queued change for
\* its key, whether that flush succeeds or fails, until a flush takes it.
C4_NewestEditQueued ==
    \A k \in Keys :
        sync["c1"][k] = "dirty" =>
            /\ k \in DOMAIN saveQueue["c1"]
            /\ saveQueue["c1"][k] = lastEdit["c1"][k][1]

\* C5: getNote(k) returns the values of the most recent updateNote(k, ...),
\* or the empty shell if the most recent call for k was deleteNote(k).
C5_CacheInCallOrder ==
    \A k \in Keys :
        lastEdit["c1"][k] # <<>> => GetNote("c1", k) = Pending(k, lastEdit["c1"][k][1])

\* C6: a loadAllNotes() that completes leaves getNote(k) at the pending
\* local value for every key k that has an entry in saveQueue.
C6_LoadKeepsPendingEdits ==
    [][(ret'.op = "loadAllNotes" /\ ret'.out = "resolved") =>
          \A k \in DOMAIN saveQueue["c1"] :
              GetNote("c1", k) = Pending(k, saveQueue["c1"][k]) =>
                  GetNote("c1", k)' = Pending(k, saveQueue["c1"][k])
      ]_vars

\* C8: when two sessions have loaded the same artifact, each has updated its
\* own barcode and each flush has succeeded, a fresh load returns both notes.
C8_BothClientsNotesKept ==
    (/\ base["c1"] # <<>>
     /\ base["c1"] = base["c2"]
     /\ \A c \in Clients : \E k \in Keys : lastEdit[c][k] # <<>> /\ sync[c][k] = "clean")
    => \A c \in Clients, k \in Keys :
          lastEdit[c][k] # <<>> =>
              /\ k \in DOMAIN FreshLoad
              /\ FreshLoad[k] = Pending(k, lastEdit[c][k][1])

\* C10: a deletion that no updateNote follows is persisted by the next
\* successful flush: the artifact then has no row for the key.
C10_DeletionPersisted ==
    \A k \in Keys :
        (lastEdit["c1"][k] = <<Null>> /\ sync["c1"][k] = "clean") =>
            k \notin DOMAIN FreshLoad

\* A step in which the loadAllNotes() call of c settles.
LoadSettles(c) == load[c].pc = "reading" /\ load'[c].pc = "idle"

\* The rows of a read that carry a barcode after trim + upper-case.
KeptRows(rows) == {k \in DOMAIN rows : ToUpperCase(Trim(rows[k].Barcode)) # EmptyText}

FieldText(e, f) == IF f = "meetingNote" THEN meetingNote[e] ELSE followUp[e]

\* A step in which the onSnapshot callback of e runs on a snapshot that
\* another session's write (or the first read) produced.
RemoteSnapshotRuns(e) ==
    /\ open[e] /\ open'[e]
    /\ inbox[e] # <<>>
    /\ inbox'[e] = <<>>
    /\ inbox[e][1].from # e

\* C7: a remote snapshot leaves the text of a field unchanged while that
\* field holds typed text that no write has stored yet.
C7_SnapshotKeepsUnsavedText ==
    [][\A e \in Editors : RemoteSnapshotRuns(e) =>
          /\ (unsaved[e]["meetingNote"] /\ <<meetingNote[e]>> = lastTyped[e]["meetingNote"])
                => meetingNote'[e] = meetingNote[e]
          /\ (unsaved[e]["followUp"] /\ <<followUp[e]>> = lastTyped[e]["followUp"])
                => followUp'[e] = followUp[e]
      ]_vars

\* C9: with both editors open, once the meeting note typed in the first and
\* the follow-up note typed in the second have been written and no auto-save
\* is pending, the document holds both.
C9_FieldLevelLastWriterWins ==
    (/\ \A e \in Editors :
           /\ open[e]
           /\ lastTyped[e][OwnField(e)] # <<>>
           /\ ~unsaved[e][OwnField(e)]
           /\ timer[e] = <<>>
           /\ writing[e] = <<>>)
    => /\ doc # NoDoc
       /\ <<doc[1].meetingNote>> = lastTyped["e1"]["meetingNote"]
       /\ <<doc[1].requiresFollowUp>> = lastTyped["e2"]["followUp"]

\* C11: after "Delete from Database" has succeeded and while the user makes
\* no further edit, the document of the barcode stays absent from the store.
C11_DeletedStaysAbsent ==
    \A e \in Editors : removal[e] = "done" => doc = NoDoc

\* C13: when the newest auto-save write of an editor was rejected while a
\* field holds typed text that is not stored yet, that text is eventually
\* written to the store.
C13_FailedSaveRetried ==
    \A e \in Editors :
        (rejected[e] /\ unsaved[e][OwnField(e)]) ~> ~unsaved[e][OwnField(e)]

\* ---------------------------------------------------------- app: claims

\* C17: reconciliation yields exactly one merged record per report row, in
\* report order, also for a row without a matching ticket or a barcode.
C17_JoinComplete ==
    /\ Len(baseCombinedData) = Len(reportData)
    /\ \A i \in DOMAIN reportData :
          /\ baseCombinedData[i].Barcode = reportData[i].Barcode
          /\ baseCombinedData[i].Category = reportData[i].Category

\* C17 witness: two different report rows were merged, the first without a
\* barcode and neither with a matching ticket.
C17_Witness ==
    /\ Len(reportData) = 2
    /\ reportData[1] # reportData[2]
    /\ reportData[1].Barcode = EmptyText
    /\ Len(baseCombinedData) = 2
    /\ \A i \in 1..2 : baseCombinedData[i].TicketMatched = "No"

\* Some ticket row has the barcode of report row i, compared after
\* trim + upper-case.
SameBarcodeTicket(i) ==
    \E j \in DOMAIN ticketData :
        norm(ticketData[j].Barcode) = norm(reportData[i].Barcode)

\* C18 as stated: a merged record is flagged "Yes" if and only if some
\* ticket has the normalized barcode of its report row, empty and
\* whitespace-only barcodes included.
C18_MatchFlagAnyBarcode ==
    \A i \in DOMAIN baseCombinedData :
        baseCombinedData[i].TicketMatched = "Yes" <=> SameBarcodeTicket(i)

\* C18: a merged record is flagged "Yes" if and only if the normalized
\* barcode of its report row is not empty and some ticket has it, also when
\* several tickets have it; otherwise it is flagged "No".
C18_MatchFlag ==
    \A i \in DOMAIN baseCombinedData :
        /\ baseCombinedData[i].TicketMatched \in {"Yes", "No"}
        /\ baseCombinedData[i].TicketMatched = "Yes" <=>
              (norm(reportData[i].Barcode) # EmptyText /\ SameBarcodeTicket(i))

\* C18 witness: a report row without a barcode is flagged "No" although a
\* ticket has a blank barcode too, and another row is flagged "Yes".
C18_Witness ==
    /\ \E i \in DOMAIN baseCombinedData :
          /\ reportData[i].Barcode = EmptyText
          /\ SameBarcodeTicket(i)
          /\ baseCombinedData[i].TicketMatched = "No"
    /\ \E i \in DOMAIN baseCombinedData : baseCombinedData[i].TicketMatched = "Yes"

\* The texts of a list.
Elements(list) == {list[i] : i \in DOMAIN list}

\* The trimmed, non-empty categories of the report rows.
ReportCategories == {Trim(reportData[i].Category) : i \in DOMAIN reportData} \ {EmptyText}

\* The mapping entries for category c, compared after trim + upper-case.
EntriesFor(c) == {j \in DOMAIN categoryMapping : norm(categoryMapping[j].category) = norm(c)}

\* The list is sorted ascending and has no duplicates.
StrictlySorted(list) ==
    \A i, j \in DOMAIN list : i < j => (list[i] # list[j] /\ TextLeq(list[i], list[j]))

C20_UnmatchedTracksInputs ==
    Elements(unmatchedCategories) = {c \in ReportCategories : EntriesFor(c) = {}}

\* The notesMap entry for key k, blank if there is none.
NotesAt(k) ==
    IF k \in DOMAIN notesMap
    THEN [meetingNote |-> OrEmpty(notesMap[k].meetingNote),
          requiresFollowUp |-> OrEmpty(notesMap[k].requiresFollowUp)]
    ELSE [meetingNote |-> EmptyText, requiresFollowUp |-> EmptyText]

\* C15: after every change of the merged records or of notesMap the
\* displayed rows are the merged records, one row per record in the same
\* order, each with the notesMap entry of its barcode in the two note fields
\* (blank if there is none); no merged records, no displayed rows.
C15_DisplayedRowsRecomputed ==
    /\ Len(combinedDataWithNotes) = Len(baseCombinedData)
    /\ \A i \in DOMAIN baseCombinedData :
          combinedDataWithNotes[i] =
              [baseCombinedData[i] EXCEPT
                  !.MeetingNote = NotesAt(baseCombinedData[i].Barcode).meetingNote,
                  !.RequiresFollowUp = NotesAt(baseCombinedData[i].Barcode).requiresFollowUp]

\* C15 witness: of two displayed rows one shows the notes a listener has
\* delivered, the other has no notesMap entry and shows blank notes.
C15_Witness ==
    /\ Len(combinedDataWithNotes) = 2
    /\ \E i, j \in DOMAIN combinedDataWithNotes :
          /\ combinedDataWithNotes[i].MeetingNote = <<"n">>
          /\ combinedDataWithNotes[i].RequiresFollowUp = <<"f">>
          /\ combinedDataWithNotes[j].Barcode \notin DOMAIN notesMap
          /\ combinedDataWithNotes[j].MeetingNote = EmptyText

\* C16: every displayed row shows the notesMap entry keyed by its barcode
\* after trim + upper-case (blank if there is none), and two rows whose
\* barcodes differ in case or surrounding blanks only address the same
\* document, so that what is written through one is the document of the other.
C16_NormalizedNoteKey ==
    /\ \A i \in DOMAIN combinedDataWithNotes :
          /\ combinedDataWithNotes[i].MeetingNote =
                NotesAt(norm(combinedDataWithNotes[i].Barcode)).meetingNote
          /\ combinedDataWithNotes[i].RequiresFollowUp =
                NotesAt(norm(combinedDataWithNotes[i].Barcode)).requiresFollowUp
    /\ \A i, j \in DOMAIN combinedDataWithNotes :
          LET bi == combinedDataWithNotes[i].Barcode
              bj == combinedDataWithNotes[j].Barcode
          IN  (bi # EmptyText /\ bj # EmptyText /\ norm(bi) = norm(bj)) =>
                  repairNotes[bi] = repairNotes[bj]

RowsOfCategory(rows, c) == {i \in DOMAIN rows : norm(rows[i].Category) = norm(c)}

\* C21: after addCategoryMapping(c, pm) with a non-empty pm, on any mapping
\* list, every merged record of category c (compared after trim +
\* upper-case) is assigned to pm and the unmatched list does not hold c;
\* after removeCategoryMapping(c) the list has no entry for c and these
\* records are assigned to nobody.
C21_UpsertAssigns ==
    [][\A c \in FormCategories, pm \in FormPMs :
          /\ (/\ categoryMapping' = UpsertMapping(categoryMapping, c, pm)
              /\ reportData' # <<>>) =>
                /\ \A i \in RowsOfCategory(baseCombinedData', c) :
                      baseCombinedData'[i].AssignedTo = Trim(pm)
                /\ \A i \in DOMAIN unmatchedCategories' :
                      norm(unmatchedCategories'[i]) # norm(c)
          /\ (/\ categoryMapping' = FilterMapping(categoryMapping, c)
              /\ reportData' # <<>>) =>
                /\ \A j \in DOMAIN categoryMapping' :
                      norm(categoryMapping'[j].category) # norm(c)
                /\ \A i \in RowsOfCategory(baseCombinedData', c) :
                      baseCombinedData'[i].AssignedTo = EmptyText
      ]_vars

\* C22: when the mapping list holds several entries of one category
\* (compared after trim + upper-case), a report row of that category is
\* assigned to the pm of the last of them in list order, whatever the pm
\* values of the entries are.
C22_LastEntryWins ==
    \A i \in DOMAIN baseCombinedData :
        LET c == Trim(reportData[i].Category)
        IN  (c # EmptyText /\ EntriesFor(c) # {}) =>
                \E j \in EntriesFor(c) :
                    /\ \A k \in EntriesFor(c) : k <= j
                    /\ baseCombinedData[i].AssignedTo = categoryMapping[j].pm

\* C23: the Repair Ticket field of every merged record is the canonical
\* ticket number of the report row: the digits and dots of the ticket read
\* as a number and cut to its integer part, blank if that is no number;
\* "1,234.00" gives "1234", "42" gives "42", "abc" and "" give "".
C23_TicketNumberCanonical ==
    /\ formatTicketNumber(<<"1", ",", "2", "3", "4", ".", "0", "0">>) = <<"1", "2", "3", "4">>
    /\ formatTicketNumber(<<"4", "2">>) = <<"4", "2">>
    /\ formatTicketNumber(<<"a", "b", "c">>) = EmptyText
    /\ formatTicketNumber(EmptyText) = EmptyText
    /\ \A i \in DOMAIN baseCombinedData :
          baseCombinedData[i].RepairTicket = formatTicketNumber(reportData[i].Ticket)

\* The days between the clock and time t, a started day counting as a day.
DaysApart(t) ==
    LET diff == IF Now >= t THEN Now - t ELSE t - Now
    IN  CHOOSE n \in 0..(diff \div MsPerDay) + 1 :
            n * MsPerDay >= diff /\ (n = 0 \/ (n - 1) * MsPerDay < diff)

\* C24: the Asset Repair Age of a merged record whose Date In parses is
\* ceil(abs(now - date) / 1 day), for dates before and after the clock
\* ("2024-01-01" on the clock of 2024-01-11 gives 10); it is "" when the
\* date is empty or does not parse.
C24_AgeInDays ==
    /\ DaysApart(DateTime(<<"2", "0", "2", "4", "-", "0", "1", "-", "0", "1">>)[1]) = 10
    /\ \A i \in DOMAIN baseCombinedData :
          LET d == DateTime(reportData[i].DateIn)
          IN  baseCombinedData[i].AssetRepairAge =
                  IF d = <<>> THEN EmptyText ELSE <<DaysApart(d[1])>>

\* C25: when importNotes(list) resolves, every note of the list with a
\* non-empty normalized barcode that no later call has replaced is in
\* notesCache and in the artifact, and saveQueue has no entry for it; also
\* when another flush was in flight when importNotes was called.
C25_ImportPersists ==
    [][(ret'.op = "importNotes" /\ ret'.out = "resolved") =>
          \A k \in DOMAIN ShapedNotes(ImportList) :
              lastEdit'["c1"][k] = <<Some(ShapedNotes(ImportList)[k])>> =>
                  /\ k \notin DOMAIN saveQueue'["c1"]
                  /\ k \in DOMAIN notesCache'["c1"]
                  /\ notesCache'["c1"][k] = ShapedNotes(ImportList)[k]
                  /\ k \in DOMAIN FreshLoad'
                  /\ FreshLoad'[k] = ShapedNotes(ImportList)[k]
      ]_vars

\* C26: in the paginated variant every row of the current page of the
\* combined table that has a non-empty barcode has an active listener,
\* for every page number and page size.
C26_PageRowsHaveListeners ==
    \A i \in DOMAIN combinedDataWithNotes :
        /\ (currentPage - 1) * itemsPerPage < i
        /\ i <= currentPage * itemsPerPage
        /\ combinedDataWithNotes[i].Barcode # EmptyText
        => combinedDataWithNotes[i].Barcode \in notesListeners

\* C27: a note persisted by a successful flush stays persisted: when the
\* artifact holds a note for key k that a flush of the instance has uploaded
\* and neither updateNote(k) nor deleteNote(k) was called since, the next
\* upload of the instance still holds a note for k, whatever loadAllNotes
\* calls resolve in between.
C27_PersistedStaysPersisted ==
    [][(ret'.op = "saveToSharePoint" /\ ret'.io = "ok" /\ ret'.out = "resolved") =>
          \A k \in Keys :
              (/\ sync["c1"][k] = "clean"
               /\ lastEdit["c1"][k] # <<>>
               /\ lastEdit["c1"][k][1] # Null
               /\ k \in DOMAIN FreshLoad)
              => k \in DOMAIN FreshLoad'
      ]_vars

\* C28: every edit typed in the row editor is eventually written to the
\* store when writes succeed, also when the editor is closed before the
\* auto-save timer of the edit has fired.
C28_EditsEventuallyWritten ==
    \A e \in Editors :
        unsaved[e][OwnField(e)] ~> ~unsaved[e][OwnField(e)]

\* C29: with an unchanged base data set and a store in which no note
\* changes, the notes live-merge reaches quiescence: from some point on no
\* listener has a snapshot left to deliver, and one listener is registered
\* per distinct non-empty barcode of the base data.
C29_LiveMergeQuiesces ==
    <>[](snaps = {} /\ notesListeners = Barcodes(baseCombinedData))

\* C30: the row editor writes only what the user edited: while the user of
\* the first session has typed nothing, no write of its editor changes the
\* stored annotation.
C30_NoEditNoWrite ==
    [][(/\ typed["e1"] = 0
        /\ writing["e1"] # <<>>
        /\ writing'["e1"] = Tail(writing["e1"]))
       => doc' = doc
      ]_vars

====
